---- MODULE Spec2Model ----
(***************************************************************************)
(* Model of web-whatsapp.js: the start-up (key check, then executor and    *)
(* endpoints), the in-memory session table `clients`, the createClient     *)
(* handshake race against the QR timeout, the adapter event listeners,     *)
(* the inbound filter with saveRawMessage, the /disconnect endpoint and    *)
(* the AI reply executor that watches raw_messages for replyPending rows.  *)
(*                                                                         *)
(* Granularity: one action is one run of JavaScript between two awaits    *)
(* (an event-loop task together with the promise continuations it         *)
(* releases).  The whatsapp-web.js Client and Firestore are external: the *)
(* order in which a Client resolves initialize(), emits its events and    *)
(* completes destroy()/logout()/sendMessage() is chosen                   *)
(* nondeterministically.                                                   *)
(*                                                                         *)
(* SpecSession is the session manager alone (it never reads the message   *)
(* store) and SpecCreate the create call within it.  SpecExecutor is the  *)
(* message store and the reply executor, SpecInbound the inbound filter,  *)
(* each together with the part of the session manager that fills and      *)
(* empties `clients`.                                                      *)
(***************************************************************************)
EXTENDS Naturals, Sequences, FiniteSets

\* ---------------------------------------------------------------- bounds
MaxAdapters == 2
MaxRows == 2
MaxNotes == 2

\* ------------------------------------------------------------- constants
Tenants == {"t1", "t2"}
Texts == <<"hello", "again">>
NoAdapter == 0
NoText == "null"
OwnAddress(t) == <<"me", t>>

VARIABLES
    clients,      \* clients[userId]: the adapter registered for the tenant, or NoAdapter
    adapters,     \* every Client constructed so far, with its createClient call
    status,       \* whatsapp_sessions/<userId>.status as last written
    stopping,     \* /disconnect requests awaiting logout(): tenant -> adapter
    rows,         \* raw_messages documents
    feed,         \* docChanges delivered by onSnapshot and not yet handled
    dispatches,   \* runs of the executor callback that reached sendMessage
    notified,     \* number of added/modified changes emitted so far
    inbound,      \* the last message handleInboundMessage handled, and how it ended
    ENCRYPTION_KEY,   \* process.env.ENCRYPTION_KEY
    phase         \* the process: starting / listening / exited

boot == <<ENCRYPTION_KEY, phase>>

vars == <<clients, adapters, status, stopping, rows, feed, dispatches, notified,
          inbound, ENCRYPTION_KEY, phase>>

AdapterIds == 1..Len(adapters)
RowIds == 1..Len(rows)
DispatchIds == 1..Len(dispatches)

\* ------------------------------------------------------------------ strings
\* A string whose content the code looks into is held by name; Spell gives
\* its characters, one one-character string each.
KeyLength == 64

\* A text of KeyLength hexadecimal characters, lower and upper case.
GoodKey ==
    [i \in 1..KeyLength |-> <<"0", "9", "a", "F">>[(i % 4) + 1]]

Spell(s) ==
    CASE s = ""           -> <<>>
      [] s = "  "         -> <<" ", " ">>
      [] s = "hi"         -> <<"h", "i">>
      [] s = " hi\n"      -> <<" ", "h", "i", "\n">>
      [] s = "@"          -> <<"@">>
      [] s = "123@x"      -> <<"1", "2", "3", "@", "x">>
      [] s = "9@g.us"     -> <<"9", "@", "g", ".", "u", "s">>
      [] s = "9@g.us.x"   -> <<"9", "@", "g", ".", "u", "s", ".", "x">>
      [] s = "@g.us"      -> <<"@", "g", ".", "u", "s">>
      [] s = "community"  -> <<"c", "o", "m", "m", "u", "n", "i", "t", "y">>
      [] s = "4community@x" ->
             <<"4", "c", "o", "m", "m", "u", "n", "i", "t", "y", "@", "x">>
      [] s = "@broadcast" -> <<"@", "b", "r", "o", "a", "d", "c", "a", "s", "t">>
      [] s = "status@broadcast" ->
             <<"s", "t", "a", "t", "u", "s", "@", "b", "r", "o", "a", "d", "c", "a", "s", "t">>
      [] s = "newsletter" -> <<"n", "e", "w", "s", "l", "e", "t", "t", "e", "r">>
      [] s = "7@newsletter" ->
             <<"7", "@", "n", "e", "w", "s", "l", "e", "t", "t", "e", "r">>
      [] s = "@temp"      -> <<"@", "t", "e", "m", "p">>
      [] s = "5@temp"     -> <<"5", "@", "t", "e", "m", "p">>
      [] s = "key:64hex"  -> GoodKey
      [] s = "key:63hex"  -> SubSeq(GoodKey, 1, KeyLength - 1)
      [] s = "key:65hex"  -> GoodKey \o <<"0">>
      [] s = "key:64g"    -> [GoodKey EXCEPT ![KeyLength] = "g"]

\* ----------------------------------------------------- initializeFirebase
HexDigits ==
    {"0", "1", "2", "3", "4", "5", "6", "7", "8", "9",
     "a", "b", "c", "d", "e", "f", "A", "B", "C", "D", "E", "F"}

\* process.env.ENCRYPTION_KEY undefined or "" (both are falsy).
NoKey == ""

\* The values of ENCRYPTION_KEY a deployment may set: none, too short, too
\* long, of the right length with one character that is no hex digit, and
\* a well-formed one.
Keys ==
    {NoKey, "key:63hex", "key:65hex", "key:64g", "key:64hex"}

\* A key check that only asks for the variable to be set.
KeyPresent(k) ==
    k # NoKey

\* !(!ENCRYPTION_KEY || ENCRYPTION_KEY.length !== 64 ||
\*   !/^[0-9a-fA-F]{64}$/.test(ENCRYPTION_KEY))
KeyAccepted(k) ==
    /\ k # NoKey
    /\ Len(Spell(k)) = KeyLength
    /\ \A i \in 1..Len(Spell(k)) : Spell(k)[i] \in HexDigits

\* initializeFirebase() returns (TRUE) or ends in process.exit(1) (FALSE);
\* accountOk: FIREBASE_SERVICE_ACCOUNT_BASE64 is set and admin.initializeApp
\* accepts it.
initializeFirebase(accountOk) ==
    KeyAccepted(ENCRYPTION_KEY) /\ accountOk

\* The last lines of the file: await initializeFirebase(); then
\* startAiReplyExecutor() subscribes and app.listen() opens the endpoints.
Startup(accountOk) ==
    /\ phase = "starting"
    /\ phase' = IF initializeFirebase(accountOk) THEN "listening" ELSE "exited"
    /\ UNCHANGED <<clients, adapters, status, stopping, rows, feed, dispatches,
                   notified, inbound, ENCRYPTION_KEY>>

\* ------------------------------------------------------------ the adapter
\* new Client(...) together with the promises createClient builds around it.
NewClient(userId) ==
    [ userId       |-> userId,
      pc           |-> "race",      \* createClient: race/awaitReady/destroying/failed/returned; loggedOut
      err          |-> "none",      \* the error createClient caught
      ready        |-> "no",        \* 'ready' emitted: no / intime (timer pending) / late
      timer        |-> "pending",   \* the setTimeout of timeoutPromise
      signal       |-> "none",      \* 'disconnected' or 'auth_failure' emitted
      destroyCalls |-> 0,           \* calls of client.destroy()
      afterTimeout |-> \E a \in AdapterIds :     \* started after a QR_TIMEOUT of the tenant
                          /\ adapters[a].userId = userId
                          /\ adapters[a].pc = "failed"
                          /\ adapters[a].err = "QR_TIMEOUT" ]

\* A Client emits events until it has emitted disconnected or auth_failure
\* or its destroy()/logout() has settled.
Alive(a) ==
    /\ adapters[a].pc \notin {"failed", "loggedOut"}
    /\ adapters[a].signal = "none"

\* updateFirestoreStatus(userId, {status: s, ...})
updateFirestoreStatus(userId, s) ==
    [status EXCEPT ![userId] = s]

\* delete clients[userId]
DeleteClient(tbl, userId) ==
    [tbl EXCEPT ![userId] = NoAdapter]

\* clients[userId] = client; return client
RegisterClient(a) ==
    [clients EXCEPT ![adapters[a].userId] = a]

\* catch: if (clients[userId]) delete clients[userId];
CatchEvict(a) ==
    DeleteClient(clients, adapters[a].userId)

\* catch: the call holds err and has called client.destroy()
CatchAdapter(ad, e) ==
    [ad EXCEPT !.pc = "destroying", !.err = e, !.destroyCalls = @ + 1]

\* ------------------------------------------------------------ createClient
\* A create that never finds an entry.
NoExistingClient(userId) ==
    NoAdapter

\* if (clients[userId]) return clients[userId]: what the early return hands
\* back, NoAdapter when the call goes on to construct a Client.
ExistingClient(userId) ==
    clients[userId]

\* POST /start-whatsapp -> createClient(userId), up to its first await.
createClient(userId) ==
    /\ phase = "listening"
    /\ IF ExistingClient(userId) # NoAdapter
       THEN UNCHANGED adapters                        \* return clients[userId]
       ELSE /\ Len(adapters) < MaxAdapters
            /\ adapters' = Append(adapters, NewClient(userId))
    /\ UNCHANGED <<clients, status, stopping, rows, feed, dispatches, notified, inbound, boot>>

\* client.initialize() resolves while createClient awaits the race.
InitializeResolves(a) ==
    /\ adapters[a].pc = "race"
    /\ IF adapters[a].ready # "no"
       THEN \* await readyPromise is already resolved: register and return
            /\ adapters' = [adapters EXCEPT ![a].pc = "returned"]
            /\ clients' = RegisterClient(a)
       ELSE /\ adapters' = [adapters EXCEPT ![a].pc = "awaitReady"]
            /\ UNCHANGED clients
    /\ UNCHANGED <<status, stopping, rows, feed, dispatches, notified, inbound, boot>>

\* client.initialize() rejects while createClient awaits the race.
InitializeRejects(a) ==
    /\ adapters[a].pc = "race"
    /\ clients' = CatchEvict(a)
    /\ adapters' = [adapters EXCEPT ![a] = CatchAdapter(@, "INIT_FAILED")]
    /\ UNCHANGED <<status, stopping, rows, feed, dispatches, notified, inbound, boot>>

\* What the expiry of the QR timer does to the createClient call: the
\* rejection of timeoutPromise is seen only while the race is undecided.
TimeoutEffect(a) ==
    IF adapters[a].pc = "race"
    THEN /\ clients' = CatchEvict(a)
         /\ adapters' = [adapters EXCEPT
                ![a] = CatchAdapter([@ EXCEPT !.timer = "fired"], "QR_TIMEOUT")]
    ELSE /\ adapters' = [adapters EXCEPT ![a].timer = "fired"]
         /\ UNCHANGED clients

\* setTimeout(..., QR_TIMEOUT_MS) expires.
QrTimerFires(a) ==
    /\ adapters[a].timer = "pending"
    /\ adapters[a].pc \in {"race", "awaitReady"}
    /\ TimeoutEffect(a)
    /\ UNCHANGED <<status, stopping, rows, feed, dispatches, notified, inbound, boot>>

\* The status the catch block projects for the caught error.
CatchStatus(e) ==
    IF e = "QR_TIMEOUT" THEN "qr_timeout" ELSE "init_failed"

\* client.destroy() settles (ok or not: the error is ignored); the catch
\* block projects the status and rethrows.
DestroySettles(a, ok) ==
    /\ adapters[a].pc = "destroying"
    /\ adapters' = [adapters EXCEPT ![a].pc = "failed"]
    /\ status' = updateFirestoreStatus(adapters[a].userId, CatchStatus(adapters[a].err))
    /\ UNCHANGED <<clients, stopping, rows, feed, dispatches, notified, inbound, boot>>

\* ------------------------------------------------------ setupClientListeners
\* client.on("qr")
OnQr(a) ==
    /\ Alive(a)
    /\ adapters[a].ready = "no"
    /\ status[adapters[a].userId] # "awaiting_scan"
    /\ status' = updateFirestoreStatus(adapters[a].userId, "awaiting_scan")
    /\ UNCHANGED <<clients, adapters, stopping, rows, feed, dispatches, notified, inbound, boot>>

\* client.on("ready") and client.once("ready", resolve)
OnReady(a) ==
    /\ Alive(a)
    /\ adapters[a].ready = "no"
    /\ status' = updateFirestoreStatus(adapters[a].userId, "active")
    /\ LET r == IF adapters[a].timer = "pending" THEN "intime" ELSE "late" IN
       IF adapters[a].pc = "awaitReady"
       THEN /\ adapters' = [adapters EXCEPT ![a].ready = r, ![a].pc = "returned"]
            /\ clients' = RegisterClient(a)
       ELSE /\ adapters' = [adapters EXCEPT ![a].ready = r]
            /\ UNCHANGED clients
    /\ UNCHANGED <<stopping, rows, feed, dispatches, notified, inbound, boot>>

\* What the 'disconnected' listener does to the table.
DisconnectedEvict(a) ==
    DeleteClient(clients, adapters[a].userId)

\* client.on("disconnected")
OnDisconnected(a) ==
    /\ Alive(a)
    /\ status' = updateFirestoreStatus(adapters[a].userId, "disconnected")
    /\ clients' = DisconnectedEvict(a)
    /\ adapters' = [adapters EXCEPT ![a].signal = "disconnected"]
    /\ UNCHANGED <<stopping, rows, feed, dispatches, notified, inbound, boot>>

\* What the 'auth_failure' listener does to the table.
AuthFailureEvict(a) ==
    clients

\* client.on("auth_failure")
OnAuthFailure(a) ==
    /\ Alive(a)
    /\ status' = updateFirestoreStatus(adapters[a].userId, "auth_failed")
    /\ clients' = AuthFailureEvict(a)
    /\ adapters' = [adapters EXCEPT ![a].signal = "auth_failure"]
    /\ UNCHANGED <<stopping, rows, feed, dispatches, notified, inbound, boot>>

\* ------------------------------------------------------------- /disconnect
\* POST /disconnect up to `await clients[userId].logout()` (one request of
\* a tenant at a time).
DisconnectRequest(userId) ==
    /\ phase = "listening"
    /\ clients[userId] # NoAdapter
    /\ stopping[userId] = NoAdapter
    /\ stopping' = [stopping EXCEPT ![userId] = clients[userId]]
    /\ UNCHANGED <<clients, adapters, status, rows, feed, dispatches, notified, inbound, boot>>

\* What /disconnect does to the table once logout() has settled.
AfterLogout(userId, ok) ==
    IF ok THEN DeleteClient(clients, userId) ELSE clients

\* logout() settles: on success `delete clients[userId]`; on failure the
\* rejection leaves the handler before the delete.
LogoutSettles(userId, ok) ==
    /\ stopping[userId] # NoAdapter
    /\ stopping' = [stopping EXCEPT ![userId] = NoAdapter]
    /\ clients' = AfterLogout(userId, ok)
    /\ adapters' = [adapters EXCEPT ![stopping[userId]].pc = IF ok THEN "loggedOut" ELSE @]
    /\ UNCHANGED <<status, rows, feed, dispatches, notified, inbound, boot>>

\* ---------------------------------------------------- string operations
\* String.prototype.endsWith
endsWith(s, suffix) ==
    /\ Len(s) >= Len(suffix)
    /\ SubSeq(s, Len(s) - Len(suffix) + 1, Len(s)) = suffix

\* String.prototype.includes
includes(s, part) ==
    /\ Len(s) >= Len(part)
    /\ \E i \in 1..(Len(s) - Len(part) + 1) : SubSeq(s, i, i + Len(part) - 1) = part

Whitespace == {" ", "\n"}

\* String.prototype.trim
trim(s) ==
    LET keep == {i \in 1..Len(s) : s[i] \notin Whitespace} IN
    IF keep = {}
    THEN <<>>
    ELSE SubSeq(s, CHOOSE i \in keep : \A j \in keep : i <= j,
                   CHOOSE i \in keep : \A j \in keep : i >= j)

\* s.split("@")[0]
BeforeAt(s) ==
    LET at == {i \in 1..Len(s) : s[i] = "@"} IN
    IF at = {} THEN s ELSE SubSeq(s, 1, (CHOOSE i \in at : \A j \in at : i <= j) - 1)

\* ------------------------------------------------------- inbound messages
\* A text message of a direct chat.
TextMessage ==
    [ from |-> "123@x", body |-> "hi", isGroup |-> FALSE, fromMe |-> FALSE,
      type |-> "chat", id |-> "m1" ]

\* Addresses the filter takes for a group, a community, a broadcast list, a
\* newsletter or a temporary chat.
GroupJids == {"9@g.us", "4community@x", "status@broadcast", "7@newsletter", "5@temp"}
EmptyBodies == {"  ", ""}
SkippedTypes == {"sticker", "location", "audio", "video", "image"}

\* The messages an adapter delivers, each under its msg.id._serialized:
\* the text message; three more the filter lets through (an address with
\* "@g.us" inside, a body with surrounding whitespace, a document); and
\* the variants of the text message the filter stops.
Messages ==
    { TextMessage,
      [TextMessage EXCEPT !.id = "m2", !.from = "9@g.us.x"],
      [TextMessage EXCEPT !.id = "m3", !.body = " hi\n"],
      [TextMessage EXCEPT !.id = "m4", !.type = "document"],
      [TextMessage EXCEPT !.id = "m5", !.isGroup = TRUE],
      [TextMessage EXCEPT !.id = "m6", !.fromMe = TRUE] }
        \cup {[TextMessage EXCEPT !.id = "m7", !.from = j] : j \in GroupJids}
        \cup {[TextMessage EXCEPT !.id = "m8", !.body = b] : b \in EmptyBodies}
        \cup {[TextMessage EXCEPT !.id = "m9", !.type = t] : t \in SkippedTypes}

\* The values crypto.randomBytes(16) may return.
IVs == {"iv1"}

\* null in the three fields encrypt() returns.
NoCipher == <<>>

NoInbound == [userId |-> NoText, msg |-> TextMessage, outcome |-> "none"]

\* ------------------------------------------------------------------ encrypt
\* An encrypt() that stores nothing of the text.
encryptNothing(text, iv) ==
    [encryptedBody |-> NoCipher, iv |-> NoCipher, authTag |-> NoCipher]

\* encrypt(text): nulls for an empty text, otherwise the AES-256-GCM
\* ciphertext, nonce and tag as symbolic terms over the nonce and the text.
encrypt(text, iv) ==
    IF Spell(text) = <<>>
    THEN [encryptedBody |-> NoCipher, iv |-> NoCipher, authTag |-> NoCipher]
    ELSE [ encryptedBody |-> <<"aes-256-gcm", iv, text>>,
           iv            |-> <<iv>>,
           authTag       |-> <<"tag", iv, text>> ]

\* ---------------------------------------------------------- saveRawMessage
\* The document saveRawMessage builds for a message received by userId.
RawMessage(userId, msg, iv) ==
    [ userId        |-> userId,
      from          |-> msg.from,
      to            |-> OwnAddress(userId),
      encryptedBody |-> encrypt(msg.body, iv).encryptedBody,
      iv            |-> encrypt(msg.body, iv).iv,
      authTag       |-> encrypt(msg.body, iv).authTag,
      type          |-> msg.type,
      phoneNumber   |-> BeforeAt(Spell(msg.from)),
      wwebId        |-> msg.id,
      isGroup       |-> FALSE,
      processed     |-> FALSE,
      isLead        |-> NoText,
      replyPending  |-> FALSE,
      autoReplyText |-> NoText,
      replySentAt   |-> FALSE,      \* whether replySentAt has been stamped
      task          |-> 0 ]         \* reply tasks written onto the row so far

\* An error handler that lets the error leave the listener.
RethrowSaveError ==
    "thrown"

\* catch (error) { console.error("Failed to save raw message", ...) }
CatchSaveError ==
    "logged"

\* How saveRawMessage ends; ok: rawMessagesCollection.add() resolved.
saveRawMessage(ok) ==
    IF ok THEN "saved" ELSE CatchSaveError

\* ------------------------------------------------------ handleInboundMessage
\* A group test that looks at the flag and the group suffix only.
isGroupFlagged(msg) ==
    \/ msg.isGroup
    \/ endsWith(Spell(msg.from), Spell("@g.us"))

\* const isGroupLike = msg.isGroup || jid.endsWith("@g.us") || ...
isGroupLike(msg) ==
    \/ msg.isGroup
    \/ endsWith(Spell(msg.from), Spell("@g.us"))
    \/ includes(Spell(msg.from), Spell("community"))
    \/ includes(Spell(msg.from), Spell("@broadcast"))
    \/ includes(Spell(msg.from), Spell("newsletter"))
    \/ includes(Spell(msg.from), Spell("@temp"))

\* How handleInboundMessage ends for msg: the four early returns, then
\* saveRawMessage.
handleInboundMessage(msg, ok) ==
    IF \/ isGroupLike(msg)
       \/ msg.fromMe
       \/ trim(Spell(msg.body)) = <<>>
       \/ msg.type \in SkippedTypes
    THEN "skipped"
    ELSE saveRawMessage(ok)

\* handleInboundMessage and the document of saveRawMessage, tabulated over
\* the messages.
Handled ==
    [msg \in Messages |-> [ok \in BOOLEAN |-> handleInboundMessage(msg, ok)]]

Documents ==
    [userId \in Tenants |->
        [msg \in Messages |-> [iv \in IVs |-> RawMessage(userId, msg, iv)]]]

\* client.on("message", msg => handleInboundMessage(msg, userId)); iv: the
\* nonce encrypt() draws, ok: rawMessagesCollection.add() resolved.
OnMessage(a, msg, iv, ok) ==
    /\ Alive(a)
    /\ adapters[a].ready # "no"
    /\ Len(rows) < MaxRows
    /\ LET userId == adapters[a].userId
           outcome == Handled[msg][ok] IN
       /\ rows' = IF outcome = "saved"
                  THEN Append(rows, Documents[userId][msg][iv])
                  ELSE rows
       /\ inbound' = [userId |-> userId, msg |-> msg, outcome |-> outcome]
    /\ UNCHANGED <<clients, adapters, status, stopping, feed, dispatches, notified, boot>>

\* ------------------------------------------------- the external AI process
\* doc.data() as far as the executor reads it (task: which reply task of
\* the row the data shows).
DocData(row) ==
    [ userId        |-> row.userId,
      from          |-> row.from,
      to            |-> row.to,
      autoReplyText |-> row.autoReplyText,
      task          |-> row.task ]

\* A docChange of the query where("replyPending", "==", true); seq: its
\* place among the added/modified changes in the order of delivery (0 for a
\* removal).
Change(type, r, row, seq) ==
    [type |-> type, row |-> r, d |-> DocData(row), seq |-> seq]

\* The text of the k-th reply task written onto a row: successive tasks of
\* a row carry different texts.
TaskText(k) ==
    Texts[((k - 1) % Len(Texts)) + 1]

\* The external writer puts a reply task on a stored row: autoReplyText and
\* replyPending=true.  The row enters the query ("added") or, when it was
\* pending already, changes inside it ("modified").
WriteReplyTask(r) ==
    /\ notified < MaxNotes
    /\ LET d == [rows[r] EXCEPT !.autoReplyText = TaskText(rows[r].task + 1),
                                !.replyPending = TRUE,
                                !.task = @ + 1] IN
       /\ rows' = [rows EXCEPT ![r] = d]
       /\ feed' = Append(feed,
                    Change(IF rows[r].replyPending THEN "modified" ELSE "added", r, d,
                           notified + 1))
    /\ notified' = notified + 1
    /\ UNCHANGED <<clients, adapters, status, stopping, dispatches, inbound, boot>>

\* The external writer changes a field the executor does not read
\* (processed, isLead) on a pending row: the change-feed notifies the same
\* task again ("modified").
TouchRow(r) ==
    /\ notified < MaxNotes
    /\ rows[r].replyPending
    /\ feed' = Append(feed, Change("modified", r, rows[r], notified + 1))
    /\ notified' = notified + 1
    /\ UNCHANGED <<clients, adapters, status, stopping, rows, dispatches, inbound, boot>>

\* A pending row as an external writer leaves it when it has not written
\* the field `missing`.
PartialRow(userId, missing) ==
    LET full == [RawMessage(userId, TextMessage, "iv1") EXCEPT
                    !.replyPending = TRUE,
                    !.autoReplyText = TaskText(1),
                    !.task = 1] IN
    CASE missing = "autoReplyText" -> [full EXCEPT !.autoReplyText = NoText]
      [] missing = "from"          -> [full EXCEPT !.from = NoText]
      [] missing = "userId"        -> [full EXCEPT !.userId = NoText]

\* An external writer adds a partially written pending row: the row enters
\* the query ("added").
AddPartialRow(userId, missing) ==
    /\ Len(rows) < MaxRows
    /\ notified < MaxNotes
    /\ rows' = Append(rows, PartialRow(userId, missing))
    /\ feed' = Append(feed, Change("added", Len(rows) + 1, PartialRow(userId, missing),
                                   notified + 1))
    /\ notified' = notified + 1
    /\ UNCHANGED <<clients, adapters, status, stopping, dispatches, inbound, boot>>

\* ------------------------------------------------------ startAiReplyExecutor
\* A filter that does not look at autoReplyText.
DispatchableWithoutText(c) ==
    /\ c.type \in {"added", "modified"}
    /\ c.d.from # NoText
    /\ c.d.userId # NoText

\* if (!["added", "modified"].includes(change.type)) return;
\* if (!d.autoReplyText || !d.from || !d.userId) return;
Dispatchable(c) ==
    /\ c.type \in {"added", "modified"}
    /\ c.d.autoReplyText # NoText
    /\ c.d.from # NoText
    /\ c.d.userId # NoText

\* const client = clients[d.userId];
LookupClient(d) ==
    clients[d.userId]

\* A dispatcher that answers to the row's recipient address.
SendTargetToRecipient(d) ==
    d.to

\* The arguments of client.sendMessage(d.from, d.autoReplyText).
SendTarget(d) ==
    d.from

SendBody(d) ==
    d.autoReplyText

\* Where the callback stands once it has called client.sendMessage: the
\* update is issued only after the send has resolved.
AfterSendCalled ==
    "sending"

\* A dispatcher that takes the newest docChange first.
NewestFirst(f) ==
    Len(f)

\* snapshot.docChanges().forEach(...): the changes are handled in the order
\* of their delivery; the position in the feed of the one handled next.
InOrder(f) ==
    1

\* The feed without its k-th docChange.
RemoveAt(f, k) ==
    SubSeq(f, 1, k - 1) \o SubSeq(f, k + 1, Len(f))

\* The callback of one docChange, up to `await client.sendMessage(...)`.
DispatchChange ==
    /\ phase = "listening"
    /\ feed # <<>>
    /\ LET c == feed[InOrder(feed)] IN
       IF Dispatchable(c) /\ LookupClient(c.d) # NoAdapter
       THEN dispatches' = Append(dispatches,
                [ row     |-> c.row,
                  d       |-> c.d,
                  seq     |-> c.seq,
                  adapter |-> LookupClient(c.d),
                  to      |-> SendTarget(c.d),
                  body    |-> SendBody(c.d),
                  sent    |-> FALSE,
                  stage   |-> AfterSendCalled ])
       ELSE UNCHANGED dispatches
    /\ feed' = RemoveAt(feed, InOrder(feed))
    /\ UNCHANGED <<clients, adapters, status, stopping, rows, notified, inbound, boot>>

\* A dispatcher that goes on to doc.ref.update after a failed send.
UpdateAfterSendFailed ==
    "updating"

\* catch (err) { console.error("AI Reply Executor Error", ...) }: the
\* callback ends.
CatchSendError ==
    "sendFailed"

\* client.sendMessage settles: on success doc.ref.update(...) is issued, on
\* failure the error is logged.
SendSettles(i, ok) ==
    /\ dispatches[i].stage = "sending"
    /\ dispatches' = [dispatches EXCEPT
            ![i].sent = ok,
            ![i].stage = IF ok THEN "updating" ELSE CatchSendError]
    /\ UNCHANGED <<clients, adapters, status, stopping, rows, feed, notified, inbound, boot>>

\* doc.ref.update({replyPending: false, replySentAt: now})
MarkSent(row) ==
    [row EXCEPT !.replyPending = FALSE, !.replySentAt = TRUE]

\* doc.ref.update settles: on success the row is written and, if it was in
\* the query, leaves it ("removed"); on failure the error is logged.
UpdateSettles(i, ok) ==
    /\ dispatches[i].stage = "updating"
    /\ LET r == dispatches[i].row IN
       IF ok
       THEN /\ rows' = [rows EXCEPT ![r] = MarkSent(@)]
            /\ feed' = IF rows[r].replyPending
                       THEN Append(feed, Change("removed", r, MarkSent(rows[r]), 0))
                       ELSE feed
            /\ dispatches' = [dispatches EXCEPT ![i].stage = "done"]
       ELSE /\ dispatches' = [dispatches EXCEPT ![i].stage = "updateFailed"]
            /\ UNCHANGED <<rows, feed>>
    /\ UNCHANGED <<clients, adapters, status, stopping, notified, inbound, boot>>

\* ------------------------------------------------------------------- spec
Init ==
    /\ clients = [t \in Tenants |-> NoAdapter]
    /\ adapters = <<>>
    /\ status = [t \in Tenants |-> "none"]
    /\ stopping = [t \in Tenants |-> NoAdapter]
    /\ rows = <<>>
    /\ feed = <<>>
    /\ dispatches = <<>>
    /\ notified = 0
    /\ inbound = NoInbound
    /\ ENCRYPTION_KEY \in Keys
    /\ phase = "starting"

\* The session manager: /start-whatsapp, the adapter's events, /disconnect.
NextSession ==
    \/ \E accountOk \in BOOLEAN : Startup(accountOk)
    \/ \E t \in Tenants : createClient(t)
    \/ \E a \in AdapterIds : InitializeResolves(a)
    \/ \E a \in AdapterIds : InitializeRejects(a)
    \/ \E a \in AdapterIds : QrTimerFires(a)
    \/ \E a \in AdapterIds, ok \in BOOLEAN : DestroySettles(a, ok)
    \/ \E a \in AdapterIds : OnQr(a)
    \/ \E a \in AdapterIds : OnReady(a)
    \/ \E a \in AdapterIds : OnDisconnected(a)
    \/ \E a \in AdapterIds : OnAuthFailure(a)
    \/ \E t \in Tenants : DisconnectRequest(t)
    \/ \E t \in Tenants, ok \in BOOLEAN : LogoutSettles(t, ok)

\* The tenants whose chats carry traffic while the executor is examined; the
\* other tenants have a session and no rows.
Chatting == {"t1"}

\* The message store and the reply executor.
NextExecutor ==
    \/ \E a \in AdapterIds :
            adapters[a].userId \in Chatting /\ OnMessage(a, TextMessage, "iv1", TRUE)
    \/ \E t \in Chatting, missing \in {"autoReplyText", "from", "userId"} :
            AddPartialRow(t, missing)
    \/ \E r \in RowIds : WriteReplyTask(r)
    \/ \E r \in RowIds : TouchRow(r)
    \/ DispatchChange
    \/ \E i \in DispatchIds, ok \in BOOLEAN : SendSettles(i, ok)
    \/ \E i \in DispatchIds, ok \in BOOLEAN : UpdateSettles(i, ok)

\* The first /start-whatsapp of a tenant.
FirstStart(userId) ==
    /\ \A a \in AdapterIds : adapters[a].userId # userId
    /\ createClient(userId)

\* The executor reads the session manager's state only through `clients`.
\* Its environment: each tenant starts once, its create call registers the
\* Client when ready and initialize() have both happened, and a
\* disconnected event of the registered Client evicts it.
NextTable ==
    \/ \E accountOk \in BOOLEAN : Startup(accountOk)
    \/ \E t \in Tenants : FirstStart(t)
    \/ \E a \in AdapterIds : InitializeResolves(a)
    \/ \E a \in AdapterIds : OnReady(a)
    \/ \E a \in AdapterIds : clients[adapters[a].userId] = a /\ OnDisconnected(a)

\* The inbound path: the adapters of the tenants deliver any of Messages.
NextInbound ==
    \E a \in AdapterIds, msg \in Messages, iv \in IVs, ok \in BOOLEAN :
        OnMessage(a, msg, iv, ok)

\* The create call alone: /start-whatsapp, what the call awaits (initialize(),
\* ready, the QR timer, destroy()) and the disconnected event that empties
\* the table.
NextCreate ==
    \/ \E accountOk \in BOOLEAN : Startup(accountOk)
    \/ \E t \in Tenants : createClient(t)
    \/ \E a \in AdapterIds : InitializeResolves(a)
    \/ \E a \in AdapterIds : InitializeRejects(a)
    \/ \E a \in AdapterIds : QrTimerFires(a)
    \/ \E a \in AdapterIds, ok \in BOOLEAN : DestroySettles(a, ok)
    \/ \E a \in AdapterIds : OnReady(a)
    \/ \E a \in AdapterIds : OnDisconnected(a)

Next == NextSession \/ NextExecutor

Spec == Init /\ [][Next]_vars

SpecSession == Init /\ [][NextSession]_vars

SpecCreate == Init /\ [][NextCreate]_vars

SpecExecutor == Init /\ [][NextTable \/ NextExecutor]_vars

SpecInbound == Init /\ [][NextTable \/ NextInbound]_vars

\* ------------------------------------------------------------------ claims
\* The create call of adapter a is in its catch block or has rethrown.
Failing(a) ==
    adapters[a].pc \in {"destroying", "failed"}

\* C1: concurrent create calls for one tenant never produce two adapters:
\* at every instant at most one adapter of a tenant is alive and not
\* destroyed, and no second adapter is constructed while a handshake of the
\* tenant is in flight.
C1_OneAdapterPerTenant ==
    \A a, b \in AdapterIds :
        (a # b /\ adapters[a].userId = adapters[b].userId)
            => ~( /\ Alive(a) /\ adapters[a].destroyCalls = 0
                  /\ Alive(b) /\ adapters[b].destroyCalls = 0 )

\* C2: a create call whose adapter has not signalled ready when the QR
\* deadline elapses fails with QR_TIMEOUT (it is in its catch block or has
\* rethrown), whatever the order of initialize(), ready and the timer.
C2_DeadlineFailsWithQrTimeout ==
    \A a \in AdapterIds :
        (adapters[a].timer = "fired" /\ adapters[a].ready # "intime")
            => (Failing(a) /\ adapters[a].err = "QR_TIMEOUT")

\* C3: when a create call that did not reach ready within the deadline
\* fails, the table holds no entry for its tenant and destroy() has been
\* called exactly once on its adapter, whether destroy() succeeded or not.
C3_TimeoutLeavesNoEntry ==
    [][\A a \in AdapterIds :
          ( /\ adapters[a].pc = "destroying"
            /\ adapters'[a].pc = "failed"
            /\ adapters[a].err = "QR_TIMEOUT"
            /\ adapters[a].ready # "intime" )
              => ( /\ clients'[adapters[a].userId] = NoAdapter
                   /\ adapters'[a].destroyCalls = 1 )]_vars

\* C4: after a start of a tenant failed with QR_TIMEOUT, a later start of
\* the tenant never gets the timed-out adapter (the table never holds an
\* adapter whose create call failed) and its fresh adapter's create call does
\* not time out once that adapter has signalled ready before the new deadline.
C4_RestartAfterTimeoutSucceeds ==
    /\ \A t \in Tenants :
          clients[t] # NoAdapter => ~Failing(clients[t])
    /\ \A b \in AdapterIds :
          (adapters[b].afterTimeout /\ adapters[b].ready = "intime")
              => adapters[b].err # "QR_TIMEOUT"

\* C5: if the adapter signals ready before the deadline, the create call
\* does not fail with QR_TIMEOUT, whether ready comes before or after
\* initialize() resolves.
C5_ReadyInTimeSucceeds ==
    \A a \in AdapterIds :
        adapters[a].ready = "intime" => adapters[a].err # "QR_TIMEOUT"

\* C6: when an adapter reports auth_failure, its Session is evicted: right
\* after the event the table does not hold that adapter.
C6_AuthFailureEvicts ==
    [][\A a \in AdapterIds :
          (adapters[a].signal = "none" /\ adapters'[a].signal = "auth_failure")
              => clients'[adapters[a].userId] # a]_vars

\* C7: when a /disconnect request ends, the table has no entry for the
\* tenant, whether logout() succeeded or failed.
C7_StopAlwaysEvicts ==
    [][\A t \in Tenants :
          (stopping[t] # NoAdapter /\ stopping'[t] = NoAdapter)
              => clients'[t] = NoAdapter]_vars

\* C8: once an adapter has signalled disconnected, the table never holds
\* an entry that refers to it.
C8_DisconnectedNeverInTable ==
    \A a \in AdapterIds :
        adapters[a].signal = "disconnected" => clients[adapters[a].userId] # a

\* C9: each reply task is consumed once: over all notifications of a row,
\* at most one sendMessage is issued per reply task.
C9_TaskDispatchedOnce ==
    \A i, j \in DispatchIds :
        (dispatches[i].row = dispatches[j].row
            /\ dispatches[i].d.task = dispatches[j].d.task) => i = j

\* The dispatch has called doc.ref.update.
UpdateIssued(x) ==
    x.stage \in {"updating", "done", "updateFailed"}

\* C10: a dispatch sends exactly the notified autoReplyText to exactly the
\* notified sender through the adapter of the row's tenant; the update is
\* issued when, and only when, the send has succeeded, and once applied the
\* row has replyPending=false and replySentAt set.
C10_DispatchSuccessPath ==
    /\ \A i \in DispatchIds :
          LET x == dispatches[i] IN
          /\ x.to = x.d.from
          /\ x.to = rows[x.row].from
          /\ x.body = x.d.autoReplyText
          /\ x.body # NoText
          /\ x.adapter # NoAdapter
          /\ adapters[x.adapter].userId = x.d.userId
          /\ x.d.userId = rows[x.row].userId
          /\ UpdateIssued(x) <=> x.sent
          /\ x.stage = "done" => rows[x.row].replySentAt
          /\ (x.stage = "done" /\ rows[x.row].task = x.d.task)
                => ~rows[x.row].replyPending
    /\ \A r \in RowIds :
          rows[r].replySentAt
              => \E i \in DispatchIds : dispatches[i].row = r /\ dispatches[i].sent

\* A row of t1 from 123@x whose reply "hello" has been sent and marked.
C10_Witness ==
    \E i \in DispatchIds :
        /\ dispatches[i].stage = "done"
        /\ dispatches[i].to = "123@x"
        /\ dispatches[i].body = "hello"
        /\ dispatches[i].d.userId = "t1"
        /\ adapters[dispatches[i].adapter].userId = "t1"
        /\ ~rows[dispatches[i].row].replyPending
        /\ rows[dispatches[i].row].replySentAt

\* The docChange c is one the executor has to pass over: a removal, a row
\* without autoReplyText, from or userId, or a row whose tenant has no entry
\* in the table.
C11_ToSkip(c) ==
    \/ c.type = "removed"
    \/ c.d.autoReplyText = NoText
    \/ c.d.from = NoText
    \/ c.d.userId = NoText
    \/ clients[c.d.userId] = NoAdapter

\* C11: when the executor takes such a docChange from the feed it issues no
\* sendMessage and writes no row (replyPending and replySentAt stay as they
\* are).
C11_SkippedChangeHasNoEffect ==
    [][(feed # <<>> /\ feed' = Tail(feed) /\ C11_ToSkip(Head(feed)))
          => (dispatches' = dispatches /\ rows' = rows)]_vars

\* Every notification has been handled, none led to a send, and a pending
\* row without autoReplyText is still pending and unstamped.
C11_Witness ==
    /\ phase = "listening"
    /\ notified > 0
    /\ feed = <<>>
    /\ dispatches = <<>>
    /\ \E r \in RowIds :
          /\ rows[r].replyPending
          /\ rows[r].autoReplyText = NoText
          /\ ~rows[r].replySentAt

\* C12: when sendMessage fails, the callback writes no row (the row keeps
\* replyPending and an unset replySentAt), emits nothing into the feed, leaves
\* the process and every other dispatch as they are, and ends: it issues no
\* update later.
C12_SendFailureLeavesRow ==
    [][\A i \in DispatchIds :
          /\ ( /\ dispatches[i].stage = "sending"
               /\ dispatches'[i].stage # "sending"
               /\ ~dispatches'[i].sent )
                 => ( /\ dispatches'[i].stage = "sendFailed"
                      /\ rows' = rows
                      /\ feed' = feed
                      /\ phase' = phase
                      /\ Len(dispatches') = Len(dispatches)
                      /\ \A j \in DispatchIds \ {i} : dispatches'[j] = dispatches[j] )
          /\ dispatches[i].stage = "sendFailed"
                 => dispatches'[i] = dispatches[i]]_vars

\* The send of one row failed and the row is still pending and unstamped;
\* the row notified after it has been answered and marked.
C12_Witness ==
    \E i, j \in DispatchIds :
        /\ i < j
        /\ dispatches[i].row # dispatches[j].row
        /\ dispatches[i].stage = "sendFailed"
        /\ rows[dispatches[i].row].replyPending
        /\ ~rows[dispatches[i].row].replySentAt
        /\ dispatches[j].stage = "done"
        /\ rows[dispatches[j].row].replySentAt

\* The skip conditions of the inbound filter: a group-like or broadcast-like
\* address, a message of the tenant's own identity, an empty trimmed body,
\* a media type.
C13_SkipCondition(msg) ==
    \/ msg.isGroup
    \/ endsWith(Spell(msg.from), Spell("@g.us"))
    \/ \E part \in {"community", "@broadcast", "newsletter", "@temp"} :
          includes(Spell(msg.from), Spell(part))
    \/ msg.fromMe
    \/ trim(Spell(msg.body)) = <<>>
    \/ msg.type \in {"sticker", "location", "audio", "video", "image"}

\* The messages for which a skip condition holds.
C13_ToSkip ==
    {msg \in Messages : C13_SkipCondition(msg)}

\* C13: handling a message for which a skip condition holds writes no row
\* and ends as a skip, without an error.
C13_SkippedMessageNotStored ==
    [][(inbound' # inbound /\ inbound'.msg \in C13_ToSkip)
          => (rows' = rows /\ inbound'.outcome = "skipped")]_vars

\* A row is stored, and the message from 5@temp handled after it was
\* skipped.
C13_Witness ==
    /\ Len(rows) = 1
    /\ inbound.outcome = "skipped"
    /\ inbound.msg.from = "5@temp"
    /\ ~inbound.msg.isGroup

\* C14: handling a message for which no skip condition holds calls the
\* store's add once; when the store accepts it, exactly one row is appended:
\* encryptedBody, iv and authTag are not null, userId is the handling
\* tenant, processed=false, isLead=null, replyPending=false,
\* autoReplyText=null.
C14_StorableMessageAppended ==
    [][(inbound' # inbound /\ inbound'.msg \notin C13_ToSkip)
          => /\ inbound'.outcome \in {"saved", "logged"}
             /\ inbound'.outcome = "saved"
                   => /\ Len(rows') = Len(rows) + 1
                      /\ SubSeq(rows', 1, Len(rows)) = rows
                      /\ LET row == rows'[Len(rows')] IN
                         /\ row.encryptedBody # NoCipher
                         /\ row.iv # NoCipher
                         /\ row.authTag # NoCipher
                         /\ row.userId = inbound'.userId
                         /\ row.wwebId = inbound'.msg.id
                         /\ row.from = inbound'.msg.from
                         /\ row.processed = FALSE
                         /\ row.isLead = NoText
                         /\ row.replyPending = FALSE
                         /\ row.autoReplyText = NoText]_vars

\* The message " hi\n" for t2 has been stored, encrypted under nonce iv1.
C14_Witness ==
    /\ inbound.outcome = "saved"
    /\ inbound.userId = "t2"
    /\ inbound.msg.body = " hi\n"
    /\ rows # <<>>
    /\ rows[Len(rows)].userId = "t2"
    /\ rows[Len(rows)].encryptedBody = <<"aes-256-gcm", "iv1", " hi\n">>
    /\ rows[Len(rows)].iv = <<"iv1">>

\* C15: handling any message ends normally (skipped, saved, or the store
\* error logged), never by an error that leaves the listener; it leaves the
\* table, the adapters, the projected status and the process alone, and
\* when the store rejects the row the message is dropped (no row written).
C15_InboundNeverThrows ==
    [][inbound' # inbound
          => /\ inbound'.outcome \in {"skipped", "saved", "logged"}
             /\ UNCHANGED <<clients, adapters, status, stopping, feed, dispatches, phase>>
             /\ inbound'.outcome = "logged" => rows' = rows]_vars

\* The store rejected the row of a message for t1: nothing is stored and
\* t1's session is registered, alive and projected active as before.
C15_Witness ==
    /\ inbound.outcome = "logged"
    /\ inbound.userId = "t1"
    /\ rows = <<>>
    /\ clients["t1"] # NoAdapter
    /\ Alive(clients["t1"])
    /\ status["t1"] = "active"
    /\ phase = "listening"

\* C16: the store holds at most one row per (userId, wwebId).
C16_SourceIdUniquePerTenant ==
    \A r1, r2 \in RowIds :
        (rows[r1].userId = rows[r2].userId /\ rows[r1].wwebId = rows[r2].wwebId)
            => r1 = r2

\* The keys of 64 characters, all of them hexadecimal digits.
C17_WellFormedKeys ==
    {k \in Keys : /\ Len(Spell(k)) = 64
                  /\ \A i \in 1..64 : Spell(k)[i] \in HexDigits}

\* C17: a process whose ENCRYPTION_KEY is absent or malformed never gets
\* past its start-up: it is starting or has exited, it has constructed no
\* Client, registered none, projected no status and handled no docChange.
C17_KeyValidatedBeforeSessions ==
    ENCRYPTION_KEY \notin C17_WellFormedKeys
        => /\ phase \in {"starting", "exited"}
           /\ adapters = <<>>
           /\ dispatches = <<>>
           /\ \A t \in Tenants : clients[t] = NoAdapter /\ status[t] = "none"

\* A process started with 64 characters of which one is no hex digit has
\* exited without constructing a Client.
C17_Witness ==
    /\ ENCRYPTION_KEY = "key:64g"
    /\ phase = "exited"
    /\ adapters = <<>>

\* C18: while the table holds an entry for a tenant, create returns that
\* entry, and no step constructs a Client (with its listeners, initialize()
\* call and QR timer) for a tenant that has an entry.
C18_CreateIsGetOrCreate ==
    [][/\ \A t \in Tenants :
             clients[t] # NoAdapter => ExistingClient(t) = clients[t]
       /\ Len(adapters') > Len(adapters)
             => clients[adapters'[Len(adapters')].userId] = NoAdapter]_vars

\* t1 is registered with the only Client ever constructed for it; starts
\* have gone on (the second Client is t2's).
C18_Witness ==
    /\ Len(adapters) = 2
    /\ adapters[1].userId = "t1"
    /\ adapters[2].userId = "t2"
    /\ clients["t1"] = 1
    /\ adapters[1].pc = "returned"
    /\ status["t1"] = "active"

\* The dispatch is between its lookup and the end of its update.
InFlight(x) ==
    x.stage \in {"sending", "updating"}

\* C19: no two dispatches of one tenant are in flight at the same time.
C19_OneSendInFlightPerTenant ==
    \A i, j \in DispatchIds :
        (dispatches[i].d.userId = dispatches[j].d.userId
            /\ InFlight(dispatches[i]) /\ InFlight(dispatches[j])) => i = j

\* C20: when the QR timer expires on an adapter that has signalled ready,
\* the expiry changes nothing but the timer: no destroy(), no eviction, no
\* QR_TIMEOUT caught by the create call; and no qr_timeout status is
\* projected for a create call whose adapter was ready before the deadline.
C20_NoTimeoutAfterReady ==
    [][\A a \in AdapterIds :
          /\ ( /\ adapters[a].ready # "no"
               /\ adapters[a].timer = "pending"
               /\ adapters'[a].timer = "fired" )
                 => ( /\ adapters'[a].destroyCalls = adapters[a].destroyCalls
                      /\ adapters'[a].err = adapters[a].err
                      /\ adapters'[a].pc = adapters[a].pc
                      /\ clients' = clients )
          /\ ( /\ adapters[a].ready = "intime"
               /\ adapters[a].pc = "destroying"
               /\ adapters'[a].pc = "failed" )
                 => status'[adapters[a].userId] # "qr_timeout"]_vars

\* The Session of adapter a has been evicted: its create call is in its
\* catch block or has rethrown, or /disconnect has logged it out.
Evicted(a) ==
    adapters[a].pc \in {"destroying", "failed", "loggedOut"}

\* C21: a ready, disconnected or auth_failure event of an adapter whose
\* Session has been evicted changes neither the table nor the projected
\* status.
C21_LateEventsIgnored ==
    [][\A a \in AdapterIds :
          ( /\ Evicted(a)
            /\ \/ adapters'[a].ready # adapters[a].ready
               \/ adapters'[a].signal # adapters[a].signal )
              => (clients' = clients /\ status' = status)]_vars

\* C22: the sends of one tenant are issued in the order in which their
\* docChanges were delivered: of two dispatches of a tenant, the one issued
\* first belongs to the change delivered first.
C22_DeliveryOrderPreserved ==
    \A i, j \in DispatchIds :
        (i < j /\ dispatches[i].d.userId = dispatches[j].d.userId)
            => dispatches[i].seq < dispatches[j].seq

\* Two pending rows of t1 were notified one after the other and both sends
\* have been issued, the one for the first row first.
C22_Witness ==
    \E i, j \in DispatchIds :
        /\ i < j
        /\ dispatches[i].d.userId = "t1"
        /\ dispatches[j].d.userId = "t1"
        /\ dispatches[i].row = 1
        /\ dispatches[j].row = 2
        /\ dispatches[i].seq = 1
        /\ dispatches[j].seq = 2

\* C23: when the create call of adapter a enters its catch block while the
\* table holds another adapter of the tenant, the entry stays, and destroy()
\* is called on no adapter but a.
C23_FailedCreateCleansOwnSession ==
    [][\A a \in AdapterIds :
          ( /\ adapters[a].pc \in {"race", "awaitReady"}
            /\ adapters'[a].pc = "destroying" )
              => /\ clients[adapters[a].userId] \notin {NoAdapter, a}
                    => clients'[adapters[a].userId] = clients[adapters[a].userId]
                 /\ \A b \in AdapterIds \ {a} :
                       adapters'[b].destroyCalls = adapters[b].destroyCalls]_vars

\* C24: every entry of the table refers to an adapter that has signalled
\* ready, has signalled neither disconnected nor auth_failure, and has been
\* neither destroyed nor logged out.
C24_TableEntriesAreLive ==
    \A t \in Tenants :
        clients[t] # NoAdapter
            => /\ adapters[clients[t]].ready # "no"
               /\ adapters[clients[t]].signal = "none"
               /\ adapters[clients[t]].destroyCalls = 0
               /\ adapters[clients[t]].pc # "loggedOut"

\* C25: a row the executor has marked (replySentAt stamped, replyPending
\* false) holds a reply task that has been sent: some dispatch of the row
\* whose send succeeded carried the row's present task and text.
C25_MarkedTextWasSent ==
    \A r \in RowIds :
        (rows[r].replySentAt /\ ~rows[r].replyPending)
            => \E i \in DispatchIds :
                  /\ dispatches[i].row = r
                  /\ dispatches[i].sent
                  /\ dispatches[i].d.task = rows[r].task
                  /\ dispatches[i].body = rows[r].autoReplyText

====
